---- MODULE Spec2Model ----
(***************************************************************************)
(* A model of spotify_filter.py: the duplicate review (automatic and       *)
(* manual), the year filter, the keep cache and the removal commits.       *)
(*                                                                         *)
(* Text is a sequence of tokens.  A token is one character (" ", "-",      *)
(* "(", ...) or an indivisible run of word characters: "a", "b" are        *)
(* letters, "A" an upper-case letter, "mix", "edit", ... the words of the  *)
(* qualifier vocabulary, "Y" a run of exactly four digits, "ndash" and     *)
(* "mdash" the en and em dash, "tab" a tabulator.                          *)
(***************************************************************************)
EXTENDS Integers, Sequences, FiniteSets, TLC

Min(S) == CHOOSE x \in S : \A y \in S : x <= y
Max(S) == CHOOSE x \in S : \A y \in S : x >= y
Abs(x) == IF x < 0 THEN -x ELSE x
Range(s) == {s[i] : i \in 1..Len(s)}

\* a loop "for i in lo..hi: acc = step(acc, i)".  The range is halved so that
\* the evaluation stays shallow on long lists; left is evaluated before the
\* second half runs.
RECURSIVE Fold(_, _, _, _)
Fold(step(_, _), acc, lo, hi) ==
    IF lo > hi THEN acc
    ELSE IF lo = hi THEN step(acc, lo)
    ELSE LET mid == (lo + hi) \div 2
             left == Fold(step, acc, lo, mid)
         IN  IF left = left THEN Fold(step, left, mid + 1, hi) ELSE left

(* ---------------------------------------------------------------------- *)
(* Normalization helpers                                                   *)
(* ---------------------------------------------------------------------- *)

Whitespace == {" ", "tab"}
IsWs(c) == c \in Whitespace
NonWord == {" ", "tab", "-", "ndash", "mdash", "(", ")", "[", "]"}
IsWordTok(c) == c \notin NonWord
IsYearTok(c) == c = "Y"

\* str.lower(), token by token
LowerTok(c) ==
    CASE c = "A" -> "a"
      [] c = "B" -> "b"
      [] c = "MIX" -> "mix"
      [] OTHER -> c
lower(s) == [i \in 1..Len(s) |-> LowerTok(s[i])]

\* .replace(en dash, "-").replace(em dash, "-")
unify_dashes(s) == [i \in 1..Len(s) |-> IF s[i] \in {"ndash", "mdash"} THEN "-" ELSE s[i]]

\* re.sub(r"\s+", " ", s): every maximal run of whitespace becomes one space
RECURSIVE CollapseFrom(_, _)
CollapseFrom(s, i) ==
    IF i > Len(s) THEN <<>>
    ELSE IF IsWs(s[i])
         THEN (IF i > 1 /\ IsWs(s[i-1]) THEN <<>> ELSE <<" ">>) \o CollapseFrom(s, i + 1)
         ELSE <<s[i]>> \o CollapseFrom(s, i + 1)
collapse_ws(s) == CollapseFrom(s, 1)

\* str.strip(chars)
strip(s, chars) ==
    LET idx == {i \in 1..Len(s) : s[i] \notin chars}
    IN  IF idx = {} THEN <<>> ELSE SubSeq(s, Min(idx), Max(idx))

\* the alternatives of qualifier_words, each as its tokens
qualifier_words ==
    { <<"remaster">>, <<"remaster", "ed">>, <<"reissue">>, <<"version">>,
      <<"edit">>, <<"mix">>, <<"re", "mix">>, <<"mono">>, <<"stereo">>,
      <<"single">>, <<"radio", " ", "edit">>, <<"album", " ", "version">> }

HasAt(s, i, w) ==
    /\ i >= 1
    /\ i + Len(w) - 1 <= Len(s)
    /\ \A k \in 1..Len(w) : s[i + k - 1] = w[k]

\* [^)]*(qualifier_words)[^)]* : the text holds a qualifier word somewhere
ContainsQualifier(s) == \E i \in 1..Len(s) : \E w \in qualifier_words : HasAt(s, i, w)

\* \s* from position i: the first position at or after i that is no whitespace
SkipWs(s, i) ==
    CHOOSE j \in i..(Len(s) + 1) :
        /\ \A k \in i..(j - 1) : IsWs(s[k])
        /\ (j = Len(s) + 1 \/ ~IsWs(s[j]))

\* length of the match of  \s*\(([^)]*(qualifier_words)[^)]*)\)  at i (0: none);
\* open/close are "(" ")" or "[" "]"
BracketMatchLen(s, i, open, close) ==
    LET j == SkipWs(s, i)
    IN  IF j > Len(s) \/ s[j] # open THEN 0
        ELSE LET ks == {k \in (j + 1)..Len(s) : s[k] = close}
             IN  IF ks = {} THEN 0
                 ELSE IF ContainsQualifier(SubSeq(s, j + 1, Min(ks) - 1))
                      THEN Min(ks) - i + 1
                      ELSE 0

\* re.sub(pattern, "", s): leftmost non-overlapping matches removed
RECURSIVE StripBracketedFrom(_, _, _, _)
StripBracketedFrom(s, i, open, close) ==
    IF i > Len(s) THEN <<>>
    ELSE LET n == BracketMatchLen(s, i, open, close)
         IN  IF n > 0 THEN StripBracketedFrom(s, i + n, open, close)
             ELSE <<s[i]>> \o StripBracketedFrom(s, i + 1, open, close)
strip_bracketed(s, open, close) == StripBracketedFrom(s, 1, open, close)

\* (qualifier_words)\b at position k
QualWordAt(s, k) ==
    \E w \in qualifier_words :
        /\ HasAt(s, k, w)
        /\ (k + Len(w) > Len(s) \/ ~IsWordTok(s[k + Len(w)]))

\* \s*-\s*(\d{4}\s*)?(qualifier_words)\b.*$  matches at i
DashQualifierAt(s, i) ==
    LET j == SkipWs(s, i)
    IN  /\ j <= Len(s)
        /\ s[j] = "-"
        /\ LET k == SkipWs(s, j + 1)
           IN  \/ QualWordAt(s, k)
               \/ /\ k <= Len(s)
                  /\ IsYearTok(s[k])
                  /\ QualWordAt(s, SkipWs(s, k + 1))
strip_dash_qualifier(s) ==
    LET m == {i \in 1..Len(s) : DashQualifierAt(s, i)}
    IN  IF m = {} THEN s ELSE SubSeq(s, 1, Min(m) - 1)

\* \s*-\s*\d{4}\b$  matches at i
DashYearAt(s, i) ==
    LET j == SkipWs(s, i)
    IN  /\ j <= Len(s)
        /\ s[j] = "-"
        /\ LET k == SkipWs(s, j + 1)
           IN  k = Len(s) /\ IsYearTok(s[k])
strip_dash_year(s) ==
    LET m == {i \in 1..Len(s) : DashYearAt(s, i)}
    IN  IF m = {} THEN s ELSE SubSeq(s, 1, Min(m) - 1)

normalize_title(name) ==
    LET n1 == strip(collapse_ws(unify_dashes(lower(name))), Whitespace)
        n2 == strip_bracketed(n1, "(", ")")
        n3 == strip_bracketed(n2, "[", "]")
        n4 == strip_dash_qualifier(n3)
        n5 == strip_dash_year(n4)
    IN  strip(collapse_ws(n5), {" ", "-"})

normalize_artist(name) == strip(lower(name), Whitespace)

(* ---------------------------------------------------------------------- *)
(* Tracks, playlist items and the inputs of a run                          *)
(* ---------------------------------------------------------------------- *)

\* track["id"] of a local file, and the value of a missing field
None == 0

DEFAULT_CUTOFF_YEAR == 1992
DUP_DURATION_THRESHOLD_SEC == 3
max_per_request == 100

\* bounds of the model
MaxLen == 2
MaxIdx == 3
BigExtra == 1

\* an item of the playlist: item["track"] is None (track = FALSE) or a track
Item(id, name, artists, rd, dur) ==
    [track |-> TRUE, id |-> id, name |-> name, artists |-> artists,
     release_date |-> rd, duration_ms |-> dur,
     uri |-> IF id = None THEN <<"local", dur>> ELSE <<"track", id>>]
NoTrack ==
    [track |-> FALSE, id |-> None, name |-> <<>>, artists |-> <<>>,
     release_date |-> <<>>, duration_ms |-> 0, uri |-> <<"none", 0>>]

Date1985 == <<"1", "9", "8", "5", "-", "0", "5", "-", "0", "1">>
Date2007 == <<"2", "0", "0", "7">>
DateNone == <<>>

\* the tracks the small playlists are made of
Catalog ==
    { Item(1, <<"a">>, << <<"A">> >>, Date1985, 120000),
      Item(2, <<"A", " ", "(", "mix", ")">>, << <<"a">>, <<"b">> >>, Date2007, 123000),
      Item(3, <<"a", " ", "-", " ", "Y">>, << <<"a">> >>, DateNone, 123001),
      Item(None, <<"a">>, << <<"a">> >>, Date2007, 121000),
      Item(5, <<"b">>, <<>>, Date2007, 0),
      NoTrack }

RECURSIVE SeqsUpTo(_, _)
SeqsUpTo(S, n) ==
    IF n = 0 THEN {<<>>}
    ELSE LET shorter == SeqsUpTo(S, n - 1)
         IN  shorter \cup {Append(s, x) : s \in {t \in shorter : Len(t) = n - 1}, x \in S}

SmallPlaylists == SeqsUpTo(Catalog, MaxLen)

\* one group of three tracks, the third within the threshold of the second only
ThreeEntryPlaylist ==
    << Item(1, <<"a">>, << <<"A">> >>, Date1985, 120000),
       Item(2, <<"A", " ", "(", "mix", ")">>, << <<"a">>, <<"b">> >>, Date2007, 123000),
       Item(3, <<"a", " ", "-", " ", "Y">>, << <<"a">> >>, DateNone, 123001) >>

\* two groups with automatic candidates: a local file (no track id) after its
\* base, and an item without a track between the tracks of the second group
LocalPlaylist ==
    << Item(1, <<"a">>, << <<"A">> >>, Date1985, 120000),
       Item(None, <<"a">>, << <<"a">> >>, Date2007, 121000),
       Item(6, <<"b">>, <<>>, Date1985, 200000),
       NoTrack,
       Item(7, <<"B">>, <<>>, Date2007, 201000) >>

\* two duplicate groups in one playlist
TwoGroupPlaylist ==
    << Item(1, <<"a">>, << <<"A">> >>, Date1985, 120000),
       Item(5, <<"b">>, <<>>, Date2007, 0),
       Item(3, <<"a", " ", "-", " ", "Y">>, << <<"a">> >>, DateNone, 123001),
       Item(6, <<"b">>, <<>>, Date1985, 200000) >>

\* one group in which a track occurs twice with another track between the two
RepeatPlaylist ==
    << Item(3, <<"a", " ", "-", " ", "Y">>, << <<"a">> >>, DateNone, 123001),
       Item(1, <<"a">>, << <<"A">> >>, Date1985, 120000),
       Item(2, <<"A", " ", "(", "mix", ")">>, << <<"a">>, <<"b">> >>, Date2007, 123000),
       Item(1, <<"a">>, << <<"A">> >>, Date1985, 120000) >>

\* one group of more than max_per_request + 1 distinct tracks, all within the
\* duration threshold of the first and all released before the cutoff
BigLen == max_per_request + 1 + BigExtra
BigPlaylist ==
    [i \in 1..BigLen |-> Item(100 + i, <<"a">>, << <<"a">> >>, Date1985, 120000 + i)]

Playlists ==
    SmallPlaylists \cup {ThreeEntryPlaylist, LocalPlaylist, TwoGroupPlaylist, RepeatPlaylist, BigPlaylist}

(* ---------------------------------------------------------------------- *)
(* Duplicate grouping                                                      *)
(* ---------------------------------------------------------------------- *)

main_artist(track) ==
    IF Len(track.artists) > 0 THEN track.artists[1] ELSE <<"Unknown">>

group_key(track) == <<normalize_title(track.name), normalize_artist(main_artist(track))>>

\* a variant that counts only the items that have a track
entry_of_counting_tracks(tr, i) ==
    [playlist_index |-> Cardinality({k \in 1..(i - 1) : tr[k].track}),
     track_id |-> tr[i].id, duration_ms |-> tr[i].duration_ms, uri |-> tr[i].uri]

\* the entry appended for the item at index i (1-based here, 0-based in the entry)
entry_of(tr, i) ==
    [playlist_index |-> i - 1, track_id |-> tr[i].id, duration_ms |-> tr[i].duration_ms,
     uri |-> tr[i].uri]

\* the body of the loop over enumerate(tracks): groups[key].append(entry); the
\* groups are kept in the order in which the dict first saw their keys
groups_step(tr, acc, i) ==
    IF ~tr[i].track THEN acc
    ELSE LET key == group_key(tr[i])
             at  == {g \in 1..Len(acc) : acc[g].key = key}
         IN  IF at = {}
             THEN Append(acc, [key |-> key, entries |-> <<entry_of(tr, i)>>])
             ELSE [acc EXCEPT ![Min(at)].entries = Append(@, entry_of(tr, i))]
build_groups(tr) == Fold(LAMBDA acc, i : groups_step(tr, acc, i), <<>>, 1, Len(tr))

\* dup_groups = {k: v for k, v in groups.items() if len(v) > 1}
IsDupGroup(g) == Len(g.entries) > 1
dup_groups_of(tr) == SelectSeq(build_groups(tr), IsDupGroup)

(* ---------------------------------------------------------------------- *)
(* Automatic duplicate candidates                                          *)
(* ---------------------------------------------------------------------- *)

threshold_ms == DUP_DURATION_THRESHOLD_SEC * 1000

\* sorted(entries, key=playlist_index): a stable sort
insert_by_index(acc, e) ==
    LET n == Cardinality({k \in 1..Len(acc) : acc[k].playlist_index <= e.playlist_index})
    IN  SubSeq(acc, 1, n) \o <<e>> \o SubSeq(acc, n + 1, Len(acc))
SortByIndex(es) == Fold(LAMBDA acc, k : insert_by_index(acc, es[k]), <<>>, 1, Len(es))

\* a variant that leaves out a difference of exactly the threshold
within_threshold_strict(e, base_dur) == Abs(e.duration_ms - base_dur) < threshold_ms

within_threshold(e, base_dur) == Abs(e.duration_ms - base_dur) <= threshold_ms

base_usable(base_dur) == base_dur > 0

\* the body of the inner loop over sorted_entries[1:] (lines 302-306)
candidate_step(acc, e, base) ==
    IF e.duration_ms <= 0 THEN acc
    ELSE IF within_threshold(e, base.duration_ms)
         THEN Append(acc, [entry |-> e, base |-> base])
         ELSE acc

\* the body of the outer loop over groups.items() (lines 291-306)
group_step(acc, entries) ==
    IF Len(entries) < 2 THEN acc
    ELSE LET sorted_entries == SortByIndex(entries)
             base == sorted_entries[1]
         IN  IF ~base_usable(base.duration_ms) THEN acc
             ELSE Fold(LAMBDA a, k : candidate_step(a, sorted_entries[k], base),
                       acc, 2, Len(sorted_entries))

candidates_of_groups(groups) ==
    Fold(LAMBDA acc, g : group_step(acc, groups[g].entries), <<>>, 1, Len(groups))
auto_candidates_of(tr) == candidates_of_groups(build_groups(tr))

(* ---------------------------------------------------------------------- *)
(* commit_duplicate_removals: payload and the remote service               *)
(* ---------------------------------------------------------------------- *)

removal(e) == [track_id |-> e.track_id, position |-> e.playlist_index]

\* items_map: track_id -> positions, in the order the ids are first seen;
\* entries without a track_id are skipped (lines 181-187, 208-211)
payload_step(acc, r) ==
    IF r.track_id = None THEN acc
    ELSE LET at == {k \in 1..Len(acc) : acc[k].uri = r.track_id}
         IN  IF at = {}
             THEN Append(acc, [uri |-> r.track_id, positions |-> <<r.position>>])
             ELSE [acc EXCEPT ![Min(at)].positions = Append(@, r.position)]
items_payload(dr) == Fold(LAMBDA acc, i : payload_step(acc, dr[i]), <<>>, 1, Len(dr))

\* a variant that loses the first item of every chunk
batch_at_skipping_first(payload, start_) ==
    SubSeq(payload, start_ + 2, Min({start_ + max_per_request, Len(payload)}))

\* items_payload[start:start + max_per_request], start 0-based
batch_at(payload, start_) ==
    SubSeq(payload, start_ + 1, Min({start_ + max_per_request, Len(payload)}))

\* the (track id, position) pairs a batch asks to remove
PairsOf(batch) ==
    UNION { {<<batch[k].uri, batch[k].positions[j]>> : j \in 1..Len(batch[k].positions)} :
            k \in 1..Len(batch) }

\* the list without the elements at the indices in gone
DropAt(pl, gone) ==
    Fold(LAMBDA acc, i : IF i \in gone THEN acc ELSE Append(acc, pl[i]), <<>>, 1, Len(pl))

\* the remote service's playlist_remove_specific_occurrences_of_items: an
\* occurrence is removed where the playlist holds that track at that position
remove_specific(pl, batch) ==
    LET pairs == PairsOf(batch)
        gone == {i \in 1..Len(pl) : pl[i].track /\ <<pl[i].id, i - 1>> \in pairs}
    IN  DropAt(pl, gone)

\* the remote service's playlist_remove_all_occurrences_of_items
remove_all(pl, uris) ==
    DropAt(pl, {i \in 1..Len(pl) : pl[i].track /\ pl[i].uri \in uris})

(* ---------------------------------------------------------------------- *)
(* Year filter helpers                                                     *)
(* ---------------------------------------------------------------------- *)

Digits == {"0", "1", "2", "3", "4", "5", "6", "7", "8", "9"}
DigitVal(c) ==
    CASE c = "0" -> 0 [] c = "1" -> 1 [] c = "2" -> 2 [] c = "3" -> 3 [] c = "4" -> 4
      [] c = "5" -> 5 [] c = "6" -> 6 [] c = "7" -> 7 [] c = "8" -> 8 [] c = "9" -> 9

\* str.isdigit()
isdigit(s) == Len(s) > 0 /\ \A i \in 1..Len(s) : s[i] \in Digits

\* int(s) of a string of digits
RECURSIVE int(_)
int(s) == IF Len(s) = 0 THEN 0 ELSE 10 * int(SubSeq(s, 1, Len(s) - 1)) + DigitVal(s[Len(s)])

\* s[:4]
first4(s) == SubSeq(s, 1, Min({4, Len(s)}))

Unknown == <<"u", "n", "k", "n", "o", "w", "n">>
NoYear == <<"?", "?", "?", "?">>

\* release_date = album.get("release_date") or "unknown"; year_str
year_str(track) ==
    LET release_date == IF track.release_date = <<>> THEN Unknown ELSE track.release_date
    IN  IF isdigit(first4(release_date)) THEN first4(release_date) ELSE NoYear

\* a variant that prompts for the tracks of the cutoff year itself
auto_kept_strict(track, cutoff) == year_str(track) # NoYear /\ int(year_str(track)) < cutoff

\* year_str != "????" and int(year_str) <= cutoff_year
auto_kept(track, cutoff) == year_str(track) # NoYear /\ int(year_str(track)) <= cutoff

\* the tracks the loop of review_tracks_by_year passes without a prompt
\* (lines 623-646)
skipped(item, keep, cutoff) ==
    \/ ~item.track
    \/ item.id \in keep
    \/ auto_kept(item, cutoff)

\* the loop from index i on, up to the next track that is prompted for
\* (Len + 1: the loop ends)
next_prompt(tr, i, keep, cutoff) ==
    Min({k \in i..Len(tr) : ~skipped(tr[k], keep, cutoff)} \cup {Len(tr) + 1})

\* list(dict.fromkeys(to_remove_uris))
dedupe(s) ==
    Fold(LAMBDA acc, i : IF s[i] \in Range(acc) THEN acc ELSE Append(acc, s[i]),
         <<>>, 1, Len(s))

\* an entry of the "keep" array that is no string (a JSON number, say): Python
\* cannot order it against a track id
NotAnId == -1

\* sorted(keep_set) raises TypeError when the set mixes the two
sortable(S) == ~(NotAnId \in S /\ S # {NotAnId})

\* sorted(keep_set)
sorted(S) ==
    [k \in 1..Cardinality(S) |-> CHOOSE x \in S : Cardinality({y \in S : y < x}) = k - 1]

(* ---------------------------------------------------------------------- *)
(* Persisted cache                                                         *)
(* ---------------------------------------------------------------------- *)

\* the states of playlist_refiner_cache.json
File(kind, keep) == [kind |-> kind, keep |-> keep]
Files ==
    {File(k, <<>>) : k \in {"missing", "unreadable", "invalid", "notdict", "nokey", "null"}}
    \cup {File("list", ks) : ks \in {<<>>, <<2>>, <<5, 2>>, <<NotAnId>>}}

\* load_decision_cache: the dict it returns ("null": data["keep"] is None)
load_decision_cache(f) ==
    CASE f.kind = "list" -> [kind |-> "list", keep |-> f.keep]
      [] f.kind = "null" -> [kind |-> "null", keep |-> <<>>]
      [] OTHER -> [kind |-> "list", keep |-> <<>>]

(* ---------------------------------------------------------------------- *)
(* The inputs read from the console                                        *)
(* ---------------------------------------------------------------------- *)

Input(kind, neg, nums, value) == [kind |-> kind, neg |-> neg, nums |-> nums, value |-> value]

\* the answers to ask_cutoff_year: Enter, a non-number, numbers
CutoffInputs ==
    {Input("empty", FALSE, {}, 0), Input("text", FALSE, {}, 0),
     Input("digits", FALSE, {}, 1800), Input("digits", FALSE, {}, 2007)}

\* "x" stands for every answer the prompt does not know
AutoInputs == {"y", "n", "e", "", "x"}
ConfirmInputs == {"y", "n", ""}
YearInputs == {"y", "n", "q", "", "x"}

IndexSets == SUBSET (0..MaxIdx)

\* Enter, a non-number, a comma-separated list of numbers
ExcludeInputs ==
    {Input("empty", FALSE, {}, 0), Input("text", FALSE, {}, 0)}
    \cup {Input("list", FALSE, ns, 0) : ns \in IndexSets}

\* 'q', Enter, a non-number, a list of numbers with or without a leading '-'
ManualInputs ==
    {Input("q", FALSE, {}, 0), Input("empty", FALSE, {}, 0), Input("text", FALSE, {}, 0)}
    \cup {Input("list", neg, ns, 0) : neg \in BOOLEAN, ns \in IndexSets}


(* ---------------------------------------------------------------------- *)
(* State                                                                   *)
(* ---------------------------------------------------------------------- *)

VARIABLES
    pc,                 \* where the run stands
    file,               \* the persisted cache file
    decision_cache,     \* main: decision_cache
    keep_set,           \* main: keep_set
    cutoff_year,        \* main: cutoff_year
    remote,             \* the playlist as the remote service holds it
    tracks,             \* the track list last fetched
    auto_candidates,    \* auto_duplicates_step: auto_candidates
    exclude_set,        \* auto_duplicates_step: exclude_set
    final_candidates,   \* auto_duplicates_step: final_candidates
    base_ids_to_keep,   \* auto_duplicates_step: base_ids_to_keep
    changed,            \* handle_duplicates: changed
    dup_removals,       \* dup_removals of the step that is running
    payload,            \* commit_duplicate_removals: items_payload
    start,              \* offset of the next batch of the running commit
    ret,                \* what commit_duplicate_removals returned to the running step
    dup_groups,         \* manual_duplicates_step: dup_groups, in dict order
    gi,                 \* manual_duplicates_step: group being resolved
    to_remove_uris,     \* review_tracks_by_year: to_remove_uris
    yi,                 \* review_tracks_by_year: track being prompted for
    calls,              \* history: the removal calls of the running step
    dirty,              \* history: a removal was applied since tracks was fetched
    commit_removed,     \* history: the running step's commit changed the playlist
    commit_failed,      \* history: a removal call of the running step failed
    keep_pre,           \* history: keep_set when the running step started
    quit_at,            \* history: where the user quit the running review (0: not)
    consent,            \* history: the user said yes to the running step's removals
    fatal,              \* history: what ended the run early
    name,               \* normalize_title: the title it is called with
    normalized,         \* normalize_title: the title it returned
    applied             \* how often normalize_title was applied to the title

runVars ==
    <<pc, file, decision_cache, keep_set, cutoff_year, remote, tracks, auto_candidates,
      exclude_set, final_candidates, base_ids_to_keep, changed, dup_removals, payload,
      start, ret, dup_groups, gi, to_remove_uris, yi, calls, dirty, commit_removed,
      commit_failed, keep_pre, quit_at, consent, fatal>>
normVars == <<name, normalized, applied>>
vars == <<runVars, normVars>>

cacheVars == <<file, decision_cache>>
autoVars == <<auto_candidates, exclude_set, final_candidates, base_ids_to_keep>>
commitVars == <<payload, start, ret, calls, commit_removed, commit_failed>>
manualVars == <<dup_groups, gi>>
yearVars == <<to_remove_uris, yi>>
remoteVars == <<remote, dirty>>

\* playlists every cache file is tried with
CachePlaylists == {TwoGroupPlaylist}

Init ==
    /\ \/ remote \in Playlists /\ file = File("missing", <<>>)
       \/ remote \in CachePlaylists /\ file \in Files
    /\ pc = "load"
    /\ decision_cache = [kind |-> "list", keep |-> <<>>]
    /\ keep_set = {}
    /\ cutoff_year = 0
    /\ tracks = <<>>
    /\ auto_candidates = <<>>
    /\ exclude_set = {}
    /\ final_candidates = <<>>
    /\ base_ids_to_keep = {}
    /\ changed = FALSE
    /\ dup_removals = <<>>
    /\ payload = <<>>
    /\ start = 0
    /\ ret = "none"
    /\ dup_groups = <<>>
    /\ gi = 0
    /\ to_remove_uris = <<>>
    /\ yi = 0
    /\ calls = <<>>
    /\ dirty = FALSE
    /\ commit_removed = FALSE
    /\ commit_failed = FALSE
    /\ keep_pre = {}
    /\ quit_at = 0
    /\ consent = FALSE
    /\ fatal = "none"
    /\ name = <<>>
    /\ normalized = <<>>
    /\ applied = 0

(* ---------------------------------------------------------------------- *)
(* main: cache load, cutoff year, first fetch                              *)
(* ---------------------------------------------------------------------- *)

\* main, lines 750-752: a "keep" that is no list makes set(...) raise
LoadCache ==
    /\ pc = "load"
    /\ LET data == load_decision_cache(file)
       IN  /\ decision_cache' = data
           /\ IF data.kind = "null"
              THEN /\ pc' = "crashed"
                   /\ fatal' = "load"
                   /\ UNCHANGED keep_set
              ELSE /\ pc' = "cutoff"
                   /\ keep_set' = Range(data.keep)
                   /\ UNCHANGED fatal
    /\ UNCHANGED <<file, cutoff_year, remoteVars, tracks, autoVars, changed, dup_removals,
                   commitVars, manualVars, yearVars, keep_pre, quit_at, consent>>
    /\ UNCHANGED normVars

\* ask_cutoff_year: an answer that is no year between 1900 and 2100 is asked again
AskCutoffWith(s) ==
    /\ pc = "cutoff"
    /\ IF s.kind = "empty"
       THEN cutoff_year' = DEFAULT_CUTOFF_YEAR /\ pc' = "fetch"
       ELSE IF s.kind = "text" \/ s.value < 1900 \/ s.value > 2100
       THEN UNCHANGED <<cutoff_year, pc>>
       ELSE cutoff_year' = s.value /\ pc' = "fetch"
    /\ UNCHANGED <<cacheVars, keep_set, remoteVars, tracks, autoVars, changed, dup_removals,
                   commitVars, manualVars, yearVars, keep_pre, quit_at, consent, fatal>>
    /\ UNCHANGED normVars
AskCutoff == \E s \in CutoffInputs : AskCutoffWith(s)

\* main line 757 and auto_duplicates_step up to its prompt (lines 243-313)
FetchTracks ==
    /\ pc = "fetch"
    /\ tracks' = remote
    /\ dirty' = FALSE
    /\ keep_pre' = keep_set
    /\ auto_candidates' = auto_candidates_of(remote)
    /\ IF auto_candidates' = <<>>
       THEN pc' = "handle_dup"
       ELSE pc' = "auto_prompt"
    /\ UNCHANGED <<cacheVars, keep_set, cutoff_year, remote, exclude_set, final_candidates,
                   base_ids_to_keep, changed, dup_removals, commitVars, manualVars, yearVars,
                   quit_at, consent, fatal>>
    /\ UNCHANGED normVars

(* ---------------------------------------------------------------------- *)
(* commit_duplicate_removals                                               *)
(* ---------------------------------------------------------------------- *)

Call(api, batch, fresh, ok) == [api |-> api, batch |-> batch, fresh |-> fresh, ok |-> ok]

\* a variant that puts the fetched playlist back when a call fails
SubmitChunkRollingBack(ok) ==
    LET batch == batch_at(payload, start)
        after == IF ok THEN remove_specific(remote, batch) ELSE tracks
    IN  /\ calls' = Append(calls, Call("specific", batch, ~dirty, ok))
        /\ remote' = after
        /\ dirty' = (dirty \/ after # remote)
        /\ commit_removed' = (commit_removed \/ after # remote)
        /\ commit_failed' = (commit_failed \/ ~ok)
        /\ start' = IF ok THEN start + max_per_request ELSE start

\* lines 219-222: one call of playlist_remove_specific_occurrences_of_items,
\* which succeeds (ok) or raises SpotifyException
SubmitChunk(ok) ==
    LET batch == batch_at(payload, start)
        after == IF ok THEN remove_specific(remote, batch) ELSE remote
    IN  /\ calls' = Append(calls, Call("specific", batch, ~dirty, ok))
        /\ remote' = after
        /\ dirty' = (dirty \/ after # remote)
        /\ commit_removed' = (commit_removed \/ after # remote)
        /\ commit_failed' = (commit_failed \/ ~ok)
        /\ start' = IF ok THEN start + max_per_request ELSE start

\* a variant that ends the loop after its first chunk
LastChunkAlways == TRUE

\* whether the batch at start is the last one of the loop
LastChunk == start + max_per_request >= Len(payload)

\* what commit_duplicate_removals returns after its loop (lines 223-227)
commit_result(ok) == IF ok THEN "True" ELSE "False"

(* ---------------------------------------------------------------------- *)
(* auto_duplicates_step                                                    *)
(* ---------------------------------------------------------------------- *)

\* a variant that takes the candidates' own ids
bases_of_entries(final) == {final[i].entry.track_id : i \in 1..Len(final)} \ {None}

\* the base ids remembered for the deleted candidates (lines 436-437)
bases_of(final) == {final[i].base.track_id : i \in 1..Len(final)} \ {None}

\* keep_set after the commit returned (lines 443-445)
keep_after_auto(keep, bases, ch) == IF ch THEN keep \cup bases ELSE keep

\* lines 426-442 and commit_duplicate_removals up to its first call
\* (lines 173-217, ask_confirm = False)
BeginAutoCommit(final) ==
    /\ final_candidates' = final
    /\ dup_removals' = [i \in 1..Len(final) |-> removal(final[i].entry)]
    /\ base_ids_to_keep' = bases_of(final)
    /\ payload' = items_payload(dup_removals')
    /\ start' = 0
    /\ calls' = <<>>
    /\ commit_removed' = FALSE
    /\ commit_failed' = FALSE
    /\ IF payload' = <<>>
       THEN ret' = "False" /\ pc' = "handle_dup"
       ELSE ret' = "none" /\ pc' = "auto_commit"
    /\ UNCHANGED changed

\* lines 378-390: the prompt "Apply this automatic cleanup?"
AutoPromptWith(r) ==
    /\ pc = "auto_prompt"
    /\ CASE r \in {"", "n"} ->
              /\ pc' = "handle_dup"
              /\ UNCHANGED <<consent, changed, final_candidates, base_ids_to_keep,
                             dup_removals, commitVars>>
         [] r = "e" ->
              /\ consent' = TRUE
              /\ pc' = "auto_exclude"
              /\ UNCHANGED <<changed, final_candidates, base_ids_to_keep, dup_removals,
                             commitVars>>
         [] r = "y" ->
              /\ consent' = TRUE
              /\ BeginAutoCommit(auto_candidates)
         [] OTHER ->
              UNCHANGED <<pc, consent, changed, final_candidates, base_ids_to_keep,
                          dup_removals, commitVars>>
    /\ UNCHANGED <<cacheVars, keep_set, cutoff_year, remoteVars, tracks, auto_candidates,
                   exclude_set, manualVars, yearVars, keep_pre, quit_at, fatal>>
    /\ UNCHANGED normVars
AutoPrompt == \E r \in AutoInputs : AutoPromptWith(r)

\* all(1 <= n <= len(auto_candidates) for n in nums)
rows_valid(nums, n) == \A k \in nums : 1 <= k /\ k <= n

\* [c for idx, c in enumerate(auto_candidates, start=1) if idx not in exclude_set]
without_rows(cands, excluded) ==
    Fold(LAMBDA acc, k : IF k \in excluded THEN acc ELSE Append(acc, cands[k]),
         <<>>, 1, Len(cands))

\* lines 392-424: the rows to exclude
AutoExcludeWith(x) ==
    /\ pc = "auto_exclude"
    /\ IF x.kind = "text" \/ (x.kind = "list" /\ ~rows_valid(x.nums, Len(auto_candidates)))
       THEN UNCHANGED <<pc, exclude_set, changed, final_candidates, base_ids_to_keep,
                        dup_removals, commitVars>>
       ELSE LET excluded == IF x.kind = "empty" THEN {} ELSE x.nums
                final == IF excluded # {} THEN without_rows(auto_candidates, excluded)
                         ELSE auto_candidates
            IN  /\ exclude_set' = excluded
                /\ IF final = <<>>
                   THEN /\ final_candidates' = final
                        /\ pc' = "handle_dup"
                        /\ UNCHANGED <<changed, base_ids_to_keep, dup_removals, commitVars>>
                   ELSE BeginAutoCommit(final)
    /\ UNCHANGED <<cacheVars, keep_set, cutoff_year, remoteVars, tracks, auto_candidates,
                   manualVars, yearVars, keep_pre, quit_at, consent, fatal>>
    /\ UNCHANGED normVars
AutoExclude == \E x \in ExcludeInputs : AutoExcludeWith(x)

\* the commit loop called from auto_duplicates_step, and lines 443-446
AutoCommitChunkWith(ok) ==
    /\ pc = "auto_commit"
    /\ SubmitChunk(ok)
    /\ IF ok /\ ~LastChunk
       THEN UNCHANGED <<ret, changed, keep_set, pc>>
       ELSE /\ ret' = commit_result(ok)
            /\ changed' = (ret' = "True")
            /\ keep_set' = keep_after_auto(keep_set, base_ids_to_keep, changed')
            /\ pc' = "handle_dup"
    /\ UNCHANGED <<cacheVars, cutoff_year, tracks, autoVars, dup_removals, payload,
                   manualVars, yearVars, keep_pre, quit_at, consent, fatal>>
    /\ UNCHANGED normVars
AutoCommitChunk == \E ok \in BOOLEAN : AutoCommitChunkWith(ok)

(* ---------------------------------------------------------------------- *)
(* handle_duplicates and manual_duplicates_step                            *)
(* ---------------------------------------------------------------------- *)

\* whether handle_duplicates fetches the track list again (line 607)
refetch_needed(ch) == ch

\* a variant that hands every request to the commit twice
BeginManualCommitTwice(dr) ==
    /\ payload' = items_payload(dr \o dr)
    /\ start' = 0
    /\ calls' = <<>>
    /\ commit_removed' = FALSE
    /\ commit_failed' = FALSE
    /\ IF dr = <<>> \/ payload' = <<>>
       THEN ret' = "False" /\ pc' = "year_fetch"
       ELSE ret' = "none" /\ pc' = "manual_confirm"

\* commit_duplicate_removals up to its prompt (lines 173-200, ask_confirm = True)
BeginManualCommit(dr) ==
    /\ payload' = items_payload(dr)
    /\ start' = 0
    /\ calls' = <<>>
    /\ commit_removed' = FALSE
    /\ commit_failed' = FALSE
    /\ IF dr = <<>> \/ payload' = <<>>
       THEN ret' = "False" /\ pc' = "year_fetch"
       ELSE ret' = "none" /\ pc' = "manual_confirm"

\* handle_duplicates lines 607-609 and manual_duplicates_step up to its first
\* prompt (lines 461-517); the locals of auto_duplicates_step are gone
ManualBegin ==
    /\ pc = "handle_dup"
    /\ tracks' = IF refetch_needed(changed) THEN remote ELSE tracks
    /\ dirty' = IF refetch_needed(changed) THEN FALSE ELSE dirty
    /\ dup_groups' = dup_groups_of(tracks')
    /\ gi' = 1
    /\ dup_removals' = <<>>
    /\ auto_candidates' = <<>>
    /\ exclude_set' = {}
    /\ final_candidates' = <<>>
    /\ base_ids_to_keep' = {}
    /\ payload' = <<>>
    /\ start' = 0
    /\ ret' = "none"
    /\ calls' = <<>>
    /\ commit_removed' = FALSE
    /\ commit_failed' = FALSE
    /\ keep_pre' = keep_set
    /\ consent' = FALSE
    /\ pc' = IF dup_groups' = <<>> THEN "year_fetch" ELSE "manual_prompt"
    /\ UNCHANGED <<cacheVars, keep_set, cutoff_year, remote, changed, yearVars, quit_at, fatal>>
    /\ UNCHANGED normVars

\* the track ids of entries, those without an id left out ("if e['track_id']")
ids_of(es) == {es[k].track_id : k \in 1..Len(es)} \ {None}

\* the entries of a group whose 1-based index is in (inside) or not in selected
pick(entries, selected, inside) ==
    Fold(LAMBDA acc, k : IF (k \in selected) = inside THEN Append(acc, entries[k]) ELSE acc,
         <<>>, 1, Len(entries))

removals_of(es) == [k \in 1..Len(es) |-> removal(es[k])]

\* lines 569-590: the entries a valid list of numbers removes, and those it keeps
\* a variant that removes the listed entries in keep mode
manual_removed_swapped(entries, remove_mode, selected) == pick(entries, selected, ~remove_mode)

manual_removed(entries, remove_mode, selected) == pick(entries, selected, remove_mode)
manual_kept(entries, remove_mode, selected) == pick(entries, selected, ~remove_mode)

\* lines 556-567: the response is asked for again
manual_invalid(r, n) ==
    r.kind = "text" \/ (r.kind = "list" /\ r.nums # {} /\ ~rows_valid(r.nums, n))

\* lines 542-547 and 558-562: every entry of the group is kept
manual_keep_all(r) == r.kind = "empty" \/ (r.kind = "list" /\ r.nums = {})

\* lines 532-592: one response to the prompt of group gi
ManualPromptWith(r) ==
    /\ pc = "manual_prompt"
    /\ LET entries == dup_groups[gi].entries
           NextGroup(dr) ==
               /\ dup_removals' = dr
               /\ gi' = gi + 1
               /\ IF gi < Len(dup_groups)
                  THEN UNCHANGED <<pc, commitVars>>
                  ELSE BeginManualCommit(dr)
               /\ UNCHANGED quit_at
       IN  CASE r.kind = "q" ->
                  /\ quit_at' = gi
                  /\ BeginManualCommit(dup_removals)
                  /\ UNCHANGED <<keep_set, dup_removals, gi>>
             [] manual_keep_all(r) ->
                  /\ keep_set' = keep_set \cup ids_of(entries)
                  /\ NextGroup(dup_removals)
             [] manual_invalid(r, Len(entries)) ->
                  UNCHANGED <<pc, keep_set, dup_removals, gi, quit_at, commitVars>>
             [] OTHER ->
                  /\ keep_set' = keep_set \cup ids_of(manual_kept(entries, r.neg, r.nums))
                  /\ NextGroup(dup_removals
                               \o removals_of(manual_removed(entries, r.neg, r.nums)))
    /\ UNCHANGED <<cacheVars, cutoff_year, remoteVars, tracks, autoVars, changed, dup_groups,
                   yearVars, keep_pre, consent, fatal>>
    /\ UNCHANGED normVars
ManualPrompt == \E r \in ManualInputs : ManualPromptWith(r)

\* lines 199-205: "Really remove these duplicate occurrences? [y/N]"
ManualConfirmWith(a) ==
    /\ pc = "manual_confirm"
    /\ IF a = "y"
       THEN pc' = "manual_commit" /\ consent' = TRUE /\ UNCHANGED ret
       ELSE pc' = "year_fetch" /\ ret' = "False" /\ UNCHANGED consent
    /\ UNCHANGED <<cacheVars, keep_set, cutoff_year, remoteVars, tracks, autoVars, changed,
                   dup_removals, payload, start, calls, commit_removed, commit_failed,
                   manualVars, yearVars, keep_pre, quit_at, fatal>>
    /\ UNCHANGED normVars
ManualConfirm == \E a \in ConfirmInputs : ManualConfirmWith(a)

\* the commit loop called from manual_duplicates_step
ManualCommitChunkWith(ok) ==
    /\ pc = "manual_commit"
    /\ SubmitChunk(ok)
    /\ IF ok /\ ~LastChunk
       THEN UNCHANGED <<ret, pc>>
       ELSE ret' = commit_result(ok) /\ pc' = "year_fetch"
    /\ UNCHANGED <<cacheVars, keep_set, cutoff_year, tracks, autoVars, changed, dup_removals,
                   payload, manualVars, yearVars, keep_pre, quit_at, consent, fatal>>
    /\ UNCHANGED normVars
ManualCommitChunk == \E ok \in BOOLEAN : ManualCommitChunkWith(ok)

(* ---------------------------------------------------------------------- *)
(* review_tracks_by_year                                                   *)
(* ---------------------------------------------------------------------- *)

\* a variant that forgets the deletions chosen in the loop
EndYearLoopForgetting(uris) ==
    /\ to_remove_uris' = <<>>
    /\ pc' = "save"

\* lines 680-688: the loop is over
EndYearLoop(uris) ==
    /\ to_remove_uris' = dedupe(uris)
    /\ pc' = IF to_remove_uris' = <<>> THEN "save" ELSE "year_confirm"

\* main line 764 and review_tracks_by_year up to its first prompt; the locals
\* of handle_duplicates and manual_duplicates_step are gone
YearFetch ==
    /\ pc = "year_fetch"
    /\ tracks' = remote
    /\ dirty' = FALSE
    /\ yi' = next_prompt(tracks', 1, keep_set, cutoff_year)
    /\ IF yi' > Len(tracks')
       THEN EndYearLoop(<<>>)
       ELSE to_remove_uris' = <<>> /\ pc' = "year_prompt"
    /\ changed' = FALSE
    /\ dup_groups' = <<>>
    /\ gi' = 0
    /\ dup_removals' = <<>>
    /\ payload' = <<>>
    /\ start' = 0
    /\ ret' = "none"
    /\ calls' = <<>>
    /\ commit_removed' = FALSE
    /\ commit_failed' = FALSE
    /\ keep_pre' = keep_set
    /\ quit_at' = 0
    /\ consent' = FALSE
    /\ UNCHANGED <<cacheVars, keep_set, cutoff_year, remote, autoVars, fatal>>
    /\ UNCHANGED normVars

\* a variant that forgets the earlier identifiers
keep_after_year_replacing(keep, track) == IF track.id # None THEN {track.id} ELSE keep

\* keep_set after the answer "keep" for a track (lines 676-677)
keep_after_year(keep, track) == IF track.id # None THEN keep \cup {track.id} ELSE keep

\* lines 661-678: one answer to "Delete this track from the playlist?"
YearPromptWith(c) ==
    /\ pc = "year_prompt"
    /\ CASE c = "q" ->
              /\ quit_at' = yi
              /\ EndYearLoop(to_remove_uris)
              /\ UNCHANGED <<keep_set, yi>>
         [] c = "y" ->
              /\ yi' = next_prompt(tracks, yi + 1, keep_set, cutoff_year)
              /\ IF yi' > Len(tracks)
                 THEN EndYearLoop(Append(to_remove_uris, tracks[yi].uri))
                 ELSE to_remove_uris' = Append(to_remove_uris, tracks[yi].uri) /\ UNCHANGED pc
              /\ UNCHANGED <<keep_set, quit_at>>
         [] c \in {"n", ""} ->
              /\ keep_set' = keep_after_year(keep_set, tracks[yi])
              /\ yi' = next_prompt(tracks, yi + 1, keep_set', cutoff_year)
              /\ IF yi' > Len(tracks)
                 THEN EndYearLoop(to_remove_uris)
                 ELSE UNCHANGED <<to_remove_uris, pc>>
              /\ UNCHANGED quit_at
         [] OTHER ->
              UNCHANGED <<pc, keep_set, yi, to_remove_uris, quit_at>>
    /\ UNCHANGED <<cacheVars, cutoff_year, remoteVars, tracks, autoVars, changed, dup_removals,
                   commitVars, manualVars, keep_pre, consent, fatal>>
    /\ UNCHANGED normVars
YearPrompt == \E c \in YearInputs : YearPromptWith(c)

\* a variant that takes Enter for a yes
YearConfirmWithDefaultYes(a) ==
    /\ pc = "year_confirm"
    /\ IF a \in {"y", ""}
       THEN pc' = "year_commit" /\ consent' = (a = "y")
       ELSE pc' = "save" /\ UNCHANGED consent
    /\ UNCHANGED <<cacheVars, keep_set, cutoff_year, remoteVars, tracks, autoVars, changed,
                   dup_removals, commitVars, manualVars, yearVars, keep_pre, quit_at, fatal>>
    /\ UNCHANGED normVars

\* lines 690-695: "Really remove these tracks from the playlist? [y/N]"
YearConfirmWith(a) ==
    /\ pc = "year_confirm"
    /\ IF a = "y"
       THEN pc' = "year_commit" /\ consent' = TRUE
       ELSE pc' = "save" /\ UNCHANGED consent
    /\ UNCHANGED <<cacheVars, keep_set, cutoff_year, remoteVars, tracks, autoVars, changed,
                   dup_removals, commitVars, manualVars, yearVars, keep_pre, quit_at, fatal>>
    /\ UNCHANGED normVars
YearConfirm == \E a \in ConfirmInputs : YearConfirmWith(a)

\* to_remove_uris[i : i + 100]
uri_batch_at(uris, i) == SubSeq(uris, i + 1, Min({i + 100, Len(uris)}))

\* lines 697-700: one call of playlist_remove_all_occurrences_of_items; nothing
\* catches the SpotifyException of a call that fails
YearCommitChunkWith(ok) ==
    /\ pc = "year_commit"
    /\ LET batch == uri_batch_at(to_remove_uris, start)
           after == IF ok THEN remove_all(remote, Range(batch)) ELSE remote
       IN  /\ calls' = Append(calls, Call("all", batch, ~dirty, ok))
           /\ remote' = after
           /\ dirty' = (dirty \/ after # remote)
           /\ commit_removed' = (commit_removed \/ after # remote)
           /\ commit_failed' = (commit_failed \/ ~ok)
           /\ start' = IF ok THEN start + 100 ELSE start
           /\ IF ~ok
              THEN pc' = "crashed" /\ fatal' = "remove"
              ELSE /\ pc' = IF start + 100 >= Len(to_remove_uris) THEN "save" ELSE pc
                   /\ UNCHANGED fatal
    /\ UNCHANGED <<cacheVars, keep_set, cutoff_year, tracks, autoVars, changed, dup_removals,
                   payload, ret, manualVars, yearVars, keep_pre, quit_at, consent>>
    /\ UNCHANGED normVars
YearCommitChunk == \E ok \in BOOLEAN : YearCommitChunkWith(ok)

(* ---------------------------------------------------------------------- *)
(* main: saving the cache                                                  *)
(* ---------------------------------------------------------------------- *)

\* the file after save_decision_cache: written, not opened, or cut short
written(f, cache, outcome) ==
    CASE outcome = "ok" -> File("list", cache.keep)
      [] outcome = "open_failed" -> f
      [] OTHER -> File("invalid", <<>>)

\* main lines 767-769; the locals of review_tracks_by_year are gone; sorted
\* raises when keep_set cannot be ordered, and nothing catches it
SaveCacheWith(outcome) ==
    /\ pc = "save"
    /\ IF sortable(keep_set)
       THEN /\ decision_cache' = [decision_cache EXCEPT !.keep = sorted(keep_set)]
            /\ file' = written(file, decision_cache', outcome)
            /\ pc' = "done"
            /\ UNCHANGED fatal
       ELSE /\ pc' = "crashed"
            /\ fatal' = "save"
            /\ UNCHANGED <<decision_cache, file>>
    /\ to_remove_uris' = <<>>
    /\ yi' = 0
    /\ start' = 0
    /\ calls' = <<>>
    /\ commit_removed' = FALSE
    /\ commit_failed' = FALSE
    /\ quit_at' = 0
    /\ consent' = FALSE
    /\ UNCHANGED <<keep_set, cutoff_year, remoteVars, tracks, autoVars, changed, dup_removals,
                   payload, ret, manualVars, keep_pre>>
    /\ UNCHANGED normVars
SaveCache == \E outcome \in {"ok", "open_failed", "write_failed"} : SaveCacheWith(outcome)

Next ==
    \/ LoadCache \/ AskCutoff \/ FetchTracks
    \/ AutoPrompt \/ AutoExclude \/ AutoCommitChunk
    \/ ManualBegin \/ ManualPrompt \/ ManualConfirm \/ ManualCommitChunk
    \/ YearFetch \/ YearPrompt \/ YearConfirm \/ YearCommitChunk
    \/ SaveCache

Spec == Init /\ [][Next]_vars

(* ---------------------------------------------------------------------- *)
(* normalize_title on its own                                              *)
(* ---------------------------------------------------------------------- *)

\* how many segments follow the stem of a title
MaxSegments == 2

\* titles: a stem followed by qualifier, year and other segments
Stems == {<<>>, <<"a">>, <<"A", " ", "b">>}
Segments ==
    { <<" ", "-", " ", "Y">>,
      <<" ", "-", " ", "MIX">>,
      <<" ", "(", "mix", ")">>,
      <<" ", "[", "Y", " ", "re", "mix", "]">>,
      <<" ", "ndash", " ", "Y", " ", "remaster", "ed">>,
      <<"tab", "mdash">>,
      <<" ", "(", "b", ")">>,
      <<" ", "B">> }
Join(segs) == Fold(LAMBDA acc, k : acc \o segs[k], <<>>, 1, Len(segs))
Titles == {stem \o Join(segs) : stem \in Stems, segs \in SeqsUpTo(Segments, MaxSegments)}

NormInit ==
    /\ pc = "normalize"
    /\ name \in Titles
    /\ normalized = <<>>
    /\ applied = 0
    /\ remote = <<>>
    /\ file = File("missing", <<>>)
    /\ decision_cache = [kind |-> "list", keep |-> <<>>]
    /\ keep_set = {}
    /\ cutoff_year = 0
    /\ tracks = <<>>
    /\ auto_candidates = <<>>
    /\ exclude_set = {}
    /\ final_candidates = <<>>
    /\ base_ids_to_keep = {}
    /\ changed = FALSE
    /\ dup_removals = <<>>
    /\ payload = <<>>
    /\ start = 0
    /\ ret = "none"
    /\ dup_groups = <<>>
    /\ gi = 0
    /\ to_remove_uris = <<>>
    /\ yi = 0
    /\ calls = <<>>
    /\ dirty = FALSE
    /\ commit_removed = FALSE
    /\ commit_failed = FALSE
    /\ keep_pre = {}
    /\ quit_at = 0
    /\ consent = FALSE
    /\ fatal = "none"

\* normalize_title(name)
Normalize ==
    /\ pc = "normalize"
    /\ applied = 0
    /\ normalized' = normalize_title(name)
    /\ applied' = 1
    /\ UNCHANGED <<runVars, name>>

\* normalize_title applied to its own result
Renormalize ==
    /\ pc = "normalize"
    /\ applied = 1
    /\ name' = normalized
    /\ normalized' = normalize_title(normalized)
    /\ applied' = 2
    /\ UNCHANGED runVars

NormNext == Normalize \/ Renormalize

NormSpec == NormInit /\ [][NormNext]_vars

(* ---------------------------------------------------------------------- *)
(* Properties                                                              *)
(* ---------------------------------------------------------------------- *)

\* the (track id, position) pairs of the calls that were submitted
SubmittedPairs == UNION {PairsOf(calls[k].batch) : k \in {j \in 1..Len(calls) : calls[j].api = "specific"}}

\* the number of positions the submitted calls carry
SubmittedCount ==
    Fold(LAMBDA acc, k :
            Fold(LAMBDA a, m : a + Len(calls[k].batch[m].positions), acc, 1, Len(calls[k].batch)),
         0, 1, Len(calls))

\* C1: every position-addressed removal call was submitted with positions of the
\* track list last fetched, no removal having been applied to the remote
\* playlist since that fetch.
C1_PositionsAreFresh ==
    \A k \in 1..Len(calls) : calls[k].api = "specific" => calls[k].fresh

\* C2: manual review runs on a track list fetched after every removal of the
\* automatic commit, and the year filter on one fetched after the manual commit.
C2_RefetchBetweenPhases ==
    /\ pc \in {"manual_prompt", "manual_confirm"} => ~dirty
    /\ pc \in {"year_prompt", "year_confirm"} => ~dirty

\* C3: when the removal call of the automatic or of the manual commit failed,
\* the step leaves the KeepCache as it was before the step.
C3_NoKeepAfterFailedCommit ==
    (pc \in {"handle_dup", "year_fetch"} /\ commit_failed) => keep_set = keep_pre

\* C4: a removal call that fails, in any of the three steps, does not end the run.
C4_RemovalFailureAbsorbed ==
    commit_failed => pc # "crashed"

\* C5: commit_duplicate_removals returns True whenever its calls removed at
\* least one occurrence from the remote playlist.
C5_ReturnMatchesRemoteEffect ==
    (ret # "none" /\ commit_removed) => ret = "True"

\* the automatic candidates of a track list as the rule states them: pairs
\* (position of the candidate, position of its base)
KeysOf(tr) ==
    Fold(LAMBDA acc, i : Append(acc, IF tr[i].track THEN group_key(tr[i]) ELSE <<>>),
         <<>>, 1, Len(tr))

RuleWithKeys(tr, keys) ==
    LET group(i) == {j \in 1..Len(tr) : tr[j].track /\ keys[j] = keys[i]}
        is_candidate(i, g) ==
            /\ tr[i].track
            /\ Cardinality(g) >= 2
            /\ i # Min(g)
            /\ tr[Min(g)].duration_ms > 0
            /\ tr[i].duration_ms > 0
            /\ Abs(tr[i].duration_ms - tr[Min(g)].duration_ms) <= 3000
    IN  {<<i - 1, Min(group(i)) - 1>> : i \in {k \in 1..Len(tr) : is_candidate(k, group(k))}}

RuleCandidates(tr) == RuleWithKeys(tr, KeysOf(tr))

CandidatePairs(cands) ==
    {<<cands[k].entry.playlist_index, cands[k].base.playlist_index>> : k \in 1..Len(cands)}

\* C6: the candidate list holds exactly the entries that are in a group of at
\* least two, are not the group's base, have a duration > 0 as the base has, and
\* differ from the base by at most 3000 ms, each once and paired with its base.
C6_CandidateRule ==
    pc \in {"auto_prompt", "auto_exclude", "auto_commit", "handle_dup"} =>
        /\ CandidatePairs(auto_candidates) = RuleCandidates(tracks)
        /\ Len(auto_candidates) = Cardinality(RuleCandidates(tracks))
        /\ \A k \in 1..Len(auto_candidates) :
              /\ auto_candidates[k].entry = entry_of(tracks, auto_candidates[k].entry.playlist_index + 1)
              /\ auto_candidates[k].base = entry_of(tracks, auto_candidates[k].base.playlist_index + 1)

\* a group of three where one later entry is a candidate and the other is not
C6_Witness ==
    /\ pc = "auto_prompt"
    /\ tracks = ThreeEntryPlaylist
    /\ CandidatePairs(auto_candidates) = {<<1, 0>>}

\* the (track id, position) pairs of the selected candidates, all of them / those
\* with a track id
SelectedPairs(final) ==
    {<<final[k].entry.track_id, final[k].entry.playlist_index>> : k \in 1..Len(final)}
SelectedWithId(final) == {q \in SelectedPairs(final) : q[1] # None}
BaseIds(final) == {final[k].base.track_id : k \in 1..Len(final)} \ {None}

\* C7 as claimed: after a successful automatic commit one request was submitted
\* per selected candidate, at its position, and the KeepCache gained exactly the
\* ids of the candidates' bases.
C7_OneRequestPerCandidate ==
    (pc = "handle_dup" /\ ret = "True") =>
        /\ SubmittedPairs = SelectedPairs(final_candidates)
        /\ SubmittedCount = Len(final_candidates)
        /\ keep_set = keep_pre \cup BaseIds(final_candidates)

\* C7 as amended: one request per selected candidate that has a track id, at its
\* position; the KeepCache gained exactly the ids of the bases of all selected
\* candidates.
C7_OneRequestPerCandidateWithId ==
    (pc = "handle_dup" /\ ret = "True") =>
        /\ SubmittedPairs = SelectedWithId(final_candidates)
        /\ SubmittedCount = Cardinality(SelectedWithId(final_candidates))
        /\ keep_set = keep_pre \cup BaseIds(final_candidates)

\* a successful commit of two candidates of which one has no track id
C7_Witness ==
    /\ pc = "handle_dup"
    /\ ret = "True"
    /\ Len(final_candidates) = 2
    /\ Cardinality(SelectedWithId(final_candidates)) = 1
    /\ Cardinality(BaseIds(final_candidates)) = 2

\* what a valid response r to the prompt of a group is claimed to do
ManualResponseEffect(r) ==
    LET entries == dup_groups[gi].entries
        n == Len(entries)
        added == SubSeq(dup_removals', Len(dup_removals) + 1, Len(dup_removals'))
        requests(I) == {[track_id |-> entries[k].track_id,
                         position |-> entries[k].playlist_index] : k \in I}
        ids(I) == {entries[k].track_id : k \in I} \ {None}
        removed == IF r.kind = "empty" THEN {}
                   ELSE IF r.neg THEN r.nums ELSE (1..n) \ r.nums
    IN  /\ Len(dup_removals') >= Len(dup_removals)
        /\ SubSeq(dup_removals', 1, Len(dup_removals)) = dup_removals
        /\ Range(added) = requests(removed)
        /\ Len(added) = Cardinality(removed)
        /\ keep_set' = keep_set \cup ids((1..n) \ removed)

\* C8: Enter keeps every entry of the group; a list of indices removes exactly
\* the entries not listed and keeps those listed; the list after '-' removes
\* exactly the entries listed and keeps the others; every request carries the
\* entry's own position.
C8_ManualResponse ==
    [][\A r \in ManualInputs :
          (/\ ManualPromptWith(r)
           /\ r.kind = "empty" \/ (r.kind = "list" /\ r.nums # {}
                                   /\ r.nums \subseteq 1..Len(dup_groups[gi].entries)))
          => ManualResponseEffect(r)]_vars

\* "-2" (or "1,3") was answered for a group of three entries
C8_Witness ==
    /\ pc = "manual_confirm"
    /\ tracks = ThreeEntryPlaylist
    /\ dup_removals = <<[track_id |-> 2, position |-> 1]>>
    /\ keep_set = {1, 3}

\* the (track id, position) pairs of the requests that have a track id
ValidPairs(dr) == {<<dr[k].track_id, dr[k].position>> : k \in {j \in 1..Len(dr) : dr[j].track_id # None}}

\* the entries of the groups resolved before the group the review stands at
ResolvedEntries == UNION {Range(dup_groups[g].entries) : g \in 1..(gi - 1)}

\* C9 as claimed: after a quit the requests accumulated so far have been
\* committed to the remote service when the resolver returns (unless a call
\* failed).
C9_QuitCommits ==
    (pc = "year_fetch" /\ quit_at # 0 /\ ~commit_failed) =>
        SubmittedPairs = ValidPairs(dup_removals)

\* C9 as amended: after a quit no further group is presented, the unresolved
\* groups contribute neither requests nor KeepCache entries, and the requests
\* accumulated so far are handed to one commit, which submits them if the user
\* confirms with 'y' and submits nothing if not.
C9_QuitCommitsIfConfirmed ==
    (pc \in {"manual_confirm", "manual_commit", "year_fetch"} /\ quit_at # 0) =>
        /\ gi = quit_at
        /\ \A k \in 1..Len(dup_removals) :
              \E e \in ResolvedEntries : dup_removals[k] = removal(e)
        /\ keep_set \ keep_pre \subseteq {e.track_id : e \in ResolvedEntries}
        /\ PairsOf(payload) = ValidPairs(dup_removals)
        /\ pc = "year_fetch" =>
              /\ (consent /\ ~commit_failed) => SubmittedPairs = ValidPairs(dup_removals)
              /\ ~consent => calls = <<>>

\* the user quit at the second group and confirmed the removal from the first
C9_Witness ==
    /\ pc = "year_fetch"
    /\ quit_at = 2
    /\ consent
    /\ ~commit_failed
    /\ dup_removals # <<>>
    /\ SubmittedPairs = ValidPairs(dup_removals)

\* C10: the KeepCache only grows, and the list handed to persistence holds
\* exactly its identifiers.
C10_KeepCacheMonotone ==
    [][/\ keep_set \subseteq keep_set'
       /\ (pc = "save" /\ pc' = "done") => Range(decision_cache'.keep) = keep_set']_vars

\* a run that loaded identifiers, added more and saved them
C10_Witness ==
    /\ pc = "done"
    /\ file.kind = "list"
    /\ {2, 5} \subseteq Range(file.keep)
    /\ Len(file.keep) >= 4

\* the states of the cache file that hold no array of identifiers under "keep"
NoKeepArray(f) == f.kind # "list" \/ NotAnId \in Range(f.keep)

\* C11: whatever the cache file holds, loading is not fatal, and a file without
\* an array of identifiers under "keep" yields an empty KeepCache.
C11_LoadNeverFatal ==
    /\ fatal # "load"
    /\ (pc = "cutoff" /\ NoKeepArray(file)) => keep_set = {}

\* the list holds exactly the elements of S, in ascending order, each once
IsSortedListOf(l, S) ==
    /\ Range(l) = S
    /\ \A i, j \in 1..Len(l) : i < j => l[i] < l[j]

\* the identifiers the run loaded (the file is untouched until the save)
LoadedIds == IF file.kind = "list" THEN Range(file.keep) ELSE {}

\* C12: a run that reaches the end of its review phases hands the sorted list of
\* the KeepCache, which holds every loaded identifier, to the write and ends
\* normally whether the write succeeds or not, with the KeepCache unchanged.
C12_SaveAtShutdown ==
    [][pc = "save" =>
          /\ pc' = "done"
          /\ keep_set' = keep_set
          /\ LoadedIds \subseteq keep_set
          /\ IsSortedListOf(decision_cache'.keep, keep_set)
          /\ file' \in {file, File("invalid", <<>>), File("list", decision_cache'.keep)}]_vars

\* the requests as (track id, position) pairs, in list order
RequestsOf(dr) == [k \in 1..Len(dr) |-> <<dr[k].track_id, dr[k].position>>]

\* the (track id, position) pairs of a batch in the order the batch lists them
FlatBatch(batch) ==
    Fold(LAMBDA acc, k : acc \o [j \in 1..Len(batch[k].positions) |->
                                    <<batch[k].uri, batch[k].positions[j]>>],
         <<>>, 1, Len(batch))

\* the batches of all calls, one after the other
ConcatBatches == Fold(LAMBDA acc, k : acc \o calls[k].batch, <<>>, 1, Len(calls))

\* a commit of duplicate removals, or of year-filter removals, ran to its end
DupCommitDone ==
    /\ pc \in {"handle_dup", "year_fetch"}
    /\ calls # <<>>
    /\ ~commit_failed
YearCommitDone == pc = "save" /\ calls # <<>>

\* the payload item of a track id: its positions in the order of the requests
ItemOf(dr, id) ==
    LET mine == SelectSeq(dr, LAMBDA r : r.track_id = id)
    IN  [uri |-> id, positions |-> [k \in 1..Len(mine) |-> mine[k].position]]
FirstRequest(dr, id) == Min({k \in 1..Len(dr) : dr[k].track_id = id})

\* C13 as claimed: the chunks hold at most 100 requests each and, put one after
\* the other, give the request list in its order.
C13_ChunksPartitionRequests ==
    /\ DupCommitDone =>
          /\ \A k \in 1..Len(calls) : Len(FlatBatch(calls[k].batch)) <= 100
          /\ FlatBatch(ConcatBatches) = RequestsOf(dup_removals)
    /\ YearCommitDone =>
          /\ \A k \in 1..Len(calls) : Len(calls[k].batch) <= 100
          /\ ConcatBatches = to_remove_uris

\* C13 as amended: the chunks hold at most 100 items each and, put one after the
\* other, give the item list: one item per track id of the requests, in the
\* order the ids first occur, holding the positions of that id's requests in
\* request order; requests without a track id are in no item. For the year
\* filter the items are the deduplicated URIs.
C13_ChunksPartitionItems ==
    /\ DupCommitDone =>
          /\ \A k \in 1..Len(calls) : Len(calls[k].batch) \in 1..100
          /\ \A k \in 1..(Len(calls) - 1) : Len(calls[k].batch) = 100
          /\ {ConcatBatches[k].uri : k \in 1..Len(ConcatBatches)}
                = {dup_removals[k].track_id : k \in 1..Len(dup_removals)} \ {None}
          /\ \A k \in 1..Len(ConcatBatches) :
                ConcatBatches[k] = ItemOf(dup_removals, ConcatBatches[k].uri)
          /\ \A i, j \in 1..Len(ConcatBatches) :
                i < j => FirstRequest(dup_removals, ConcatBatches[i].uri)
                           < FirstRequest(dup_removals, ConcatBatches[j].uri)
    /\ YearCommitDone =>
          /\ \A k \in 1..Len(calls) : Len(calls[k].batch) \in 1..100
          /\ ConcatBatches = to_remove_uris
          /\ Cardinality(Range(to_remove_uris)) = Len(to_remove_uris)

\* a commit whose requests for one track were merged into one item, placed
\* before the item of a request that came between them
C13_Witness ==
    /\ DupCommitDone
    /\ Len(dup_removals) = 3
    /\ Len(ConcatBatches) = 2
    /\ Len(ConcatBatches[1].positions) = 2
    /\ FlatBatch(ConcatBatches) # RequestsOf(dup_removals)

\* the track has a known year (the first 4 characters of its release date are
\* digits) and the year is not after the cutoff
KnownOld(t, cutoff) ==
    /\ Len(t.release_date) >= 1
    /\ \A k \in 1..Min({4, Len(t.release_date)}) : t.release_date[k] \in Digits
    /\ int(SubSeq(t.release_date, 1, Min({4, Len(t.release_date)}))) <= cutoff

\* the items the year filter passes without a prompt, and those it prompts for
PassedItem(item, keep, cutoff) == ~item.track \/ item.id \in keep \/ KnownOld(item, cutoff)
PromptedItem(item, keep, cutoff) == item.track /\ item.id \notin keep /\ ~KnownOld(item, cutoff)

\* C14: as long as the review was not stopped by quit, every item the loop goes
\* past without a prompt is an item without track, a track whose id is in the
\* KeepCache at that time, or a track of a known year <= cutoff; the item it
\* prompts for is a track that is not in the KeepCache and whose year is after
\* the cutoff or unknown; and nothing but the prompted track's URI enters the
\* removal list.
C14_YearPromptRule ==
    [][(pc \in {"year_fetch", "year_prompt"} /\ quit_at' = 0) =>
          LET from == IF pc = "year_fetch" THEN 0 ELSE yi
              upto == IF pc' = "year_prompt" THEN yi' - 1 ELSE Len(tracks')
              answered == IF pc = "year_prompt" THEN {tracks[yi].uri} ELSE {}
          IN  /\ \A k \in (from + 1)..upto : PassedItem(tracks'[k], keep_set', cutoff_year)
              /\ pc' = "year_prompt" =>
                    /\ yi' \in 1..Len(tracks')
                    /\ yi' >= from
                    /\ PromptedItem(tracks'[yi'], keep_set', cutoff_year)
              /\ Range(to_remove_uris') \subseteq Range(to_remove_uris) \cup answered]_vars

\* the loop passed a track of 1985 and a track of the KeepCache and prompts for
\* a track without release date
C14_Witness ==
    /\ pc = "year_prompt"
    /\ tracks = TwoGroupPlaylist
    /\ yi = 3
    /\ cutoff_year = DEFAULT_CUTOFF_YEAR
    /\ 5 \in keep_set

\* the tracks the year filter reached before the index i
ReachedBefore(i) == {tracks[k] : k \in 1..(i - 1)}

\* after a quit in the year filter: the loop stands where it was left, and the
\* removal list and the ids added to the KeepCache come from the tracks before
\* it; once confirmed and submitted, the calls carry the deduplicated list
AfterYearQuit ==
    (quit_at # 0 /\ pc \in {"year_confirm", "year_commit", "save"}) =>
        /\ yi = quit_at
        /\ Range(to_remove_uris) \subseteq {t.uri : t \in ReachedBefore(quit_at)}
        /\ keep_set \ keep_pre \subseteq {t.id : t \in ReachedBefore(quit_at)}
        /\ (pc = "save" /\ consent) =>
              /\ ConcatBatches = to_remove_uris
              /\ to_remove_uris # <<>>
              /\ Cardinality(Range(to_remove_uris)) = Len(to_remove_uris)
        /\ (pc = "save" /\ ~consent) => calls = <<>>

\* what an answer c to the prompt for a track is claimed to do
YearAnswerEffect(c) ==
    LET t == tracks[yi]
    IN  CASE c = "y" ->
               /\ keep_set' = keep_set
               /\ Range(to_remove_uris') = Range(to_remove_uris) \cup {t.uri}
          [] c \in {"n", ""} ->
               /\ keep_set' = keep_set \cup ({t.id} \ {None})
               /\ Range(to_remove_uris') = Range(to_remove_uris)
          [] c = "q" ->
               /\ pc' \in {"year_confirm", "save"}
               /\ pc' = "save" <=> to_remove_uris = <<>>
               /\ keep_set' = keep_set
               /\ Range(to_remove_uris') = Range(to_remove_uris)
               /\ yi' = yi
          [] OTHER -> TRUE

\* C15: 'delete' adds the track's URI to the removal list and leaves the
\* KeepCache alone; 'keep' adds the track's id to the KeepCache and leaves the
\* removal list alone; 'quit' ends the loop at once, no later track is prompted
\* for or recorded, and the deletions chosen before it are submitted, without
\* duplicates, once the final confirmation is given.
C15_YearOutcomes ==
    [][/\ \A c \in YearInputs : YearPromptWith(c) => YearAnswerEffect(c)
       /\ AfterYearQuit']_vars

\* the second track was marked for deletion, the review was quit at the third,
\* and the deletion was confirmed and submitted
C15_Witness ==
    /\ pc = "save"
    /\ tracks = TwoGroupPlaylist
    /\ quit_at = 3
    /\ consent
    /\ Len(calls) = 1
    /\ calls[1].batch = <<tracks[2].uri>>

\* C16: normalizing a normalized title gives the same title.
C16_NormalizeIdempotent == applied = 2 => normalized = name

\* a response that names no valid set of entries of a group of n: no number at
\* all, or an index outside 1..n
RejectedResponse(r, n) ==
    \/ r.kind = "text"
    \/ r.kind = "list" /\ (r.nums = {} \/ ~(r.nums \subseteq 1..n))

\* C17: a response that is not numeric, or that holds an index outside the
\* group, leaves the review at the same group and changes neither the KeepCache
\* nor the accumulated requests nor the remote playlist.
C17_InvalidInputChangesNothing ==
    [][\A r \in ManualInputs :
          (ManualPromptWith(r) /\ RejectedResponse(r, Len(dup_groups[gi].entries)))
          => UNCHANGED <<pc, gi, keep_set, dup_removals, remote>>]_vars

\* what a valid exclusion X (Enter: nothing excluded) is claimed to do
ExclusionEffect(X) ==
    LET n == Len(auto_candidates)
        rest == SelectSeq([k \in 1..n |-> k], LAMBDA k : k \notin X)
    IN  /\ final_candidates' = [k \in 1..Len(rest) |-> auto_candidates[rest[k]]]
        /\ IF rest = <<>>
           THEN /\ pc' = "handle_dup"
                /\ ~changed'
                /\ UNCHANGED <<keep_set, remote, calls, dup_removals>>
           ELSE /\ pc' \in {"auto_commit", "handle_dup"}
                /\ dup_removals' = [k \in 1..Len(rest) |-> removal(auto_candidates[rest[k]].entry)]
                /\ payload' = items_payload(dup_removals')
                /\ pc' = "handle_dup" => payload' = <<>>

\* C18: an exclusion input that is no list of row numbers within 1..n is asked
\* for again and changes nothing; a valid set X hands exactly the candidates of
\* the rows not in X to the commit, in their order; if X holds every row, no
\* removal call is made, the KeepCache is unchanged and the step reports no
\* change.
C18_AutoExclusion ==
    [][\A x \in ExcludeInputs :
          AutoExcludeWith(x) =>
             IF RejectedResponse(x, Len(auto_candidates))
             THEN UNCHANGED <<pc, exclude_set, final_candidates, dup_removals, keep_set,
                              remote, calls>>
             ELSE ExclusionEffect(IF x.kind = "empty" THEN {} ELSE x.nums)]_vars

\* the list p starts with the list q
StartsWith(p, q) == Len(q) <= Len(p) /\ SubSeq(p, 1, Len(q)) = q

\* the requests with a track id, each once, as (track id, position) pairs
PayloadPairsOnce(pl) ==
    \A a, b \in 1..Len(pl) :
        /\ a # b => pl[a].uri # pl[b].uri
        /\ Cardinality(Range(pl[a].positions)) = Len(pl[a].positions)

\* C19: while the groups are being resolved no removal call is made and the
\* playlist is untouched; the review is left once, by quit or after the last
\* group, and hands the accumulated requests to one commit, each request once;
\* the calls of that commit are the only ones of the review, and no group is
\* presented after it.
C19_SingleManualCommit ==
    [][/\ pc = "manual_prompt" =>
             /\ calls = <<>> /\ calls' = <<>>
             /\ remote' = remote
       /\ (pc = "manual_prompt" /\ pc' # "manual_prompt") =>
             /\ pc' \in {"manual_confirm", "year_fetch"}
             /\ \/ quit_at' # 0 /\ gi' = gi
                \/ quit_at' = 0 /\ gi = Len(dup_groups) /\ gi' = gi + 1
             /\ PairsOf(payload') = ValidPairs(dup_removals')
             /\ PayloadPairsOnce(payload')
       /\ pc \in {"manual_confirm", "manual_commit"} =>
             /\ pc' \in {"manual_confirm", "manual_commit", "year_fetch"}
             /\ UNCHANGED <<dup_removals, payload, gi, quit_at, keep_set>>
             /\ StartsWith(payload', ConcatBatches')]_vars

\* both groups were resolved with removals, and the one commit at the end made
\* one call
C19_Witness ==
    /\ pc = "year_fetch"
    /\ quit_at = 0
    /\ Len(dup_groups) = 2
    /\ gi = 3
    /\ Len(dup_removals) = 2
    /\ Len(calls) = 1
    /\ calls[1].ok

\* the k-th chunk of at most 100 elements of a list
ChunkOf(l, k) == SubSeq(l, 100 * (k - 1) + 1, Min({100 * k, Len(l)}))

\* the calls made so far are the first chunks of the list in list order, and
\* every call before the last one succeeded
CallsInOrder ==
    /\ \A k \in 1..Len(calls) :
          calls[k].batch = ChunkOf(IF calls[k].api = "all" THEN to_remove_uris ELSE payload, k)
    /\ \A k \in 1..(Len(calls) - 1) : calls[k].ok
    /\ commit_failed <=> (calls # <<>> /\ ~calls[Len(calls)].ok)

\* C20: the chunks of a commit are submitted one by one in list order, each
\* only after the one before it succeeded; a failed call ends the commit, no
\* further call is made, and the playlist keeps what the earlier chunks removed.
C20_SequentialChunks ==
    [][/\ CallsInOrder'
       /\ Len(calls') > Len(calls) =>
             /\ Len(calls') = Len(calls) + 1
             /\ ~commit_failed
             /\ ~calls'[Len(calls')].ok => remote' = remote
       /\ commit_failed =>
             /\ remote' = remote
             /\ calls' = calls \/ calls' = <<>>
             /\ pc \notin {"auto_commit", "manual_commit", "year_commit"}]_vars

\* the first chunk of 100 succeeded, the second failed, and the 100 tracks of
\* the first stay removed
C20_Witness ==
    /\ Len(calls) = 2
    /\ calls[1].ok
    /\ Len(calls[1].batch) = 100
    /\ ~calls[2].ok
    /\ commit_failed
    /\ Len(remote) = Len(tracks) - 100

\* the groups of a track list have the claimed shape
GroupsWellFormed(tr, G) ==
    LET keys == KeysOf(tr)
        members(g) == {G[g].entries[k].playlist_index + 1 : k \in 1..Len(G[g].entries)}
    IN  \* every item with a track is in exactly one group, that of its key
        /\ \A i \in 1..Len(tr) :
              IF tr[i].track
              THEN /\ Cardinality({g \in 1..Len(G) : i \in members(g)}) = 1
                   /\ \A g \in 1..Len(G) : i \in members(g) <=> G[g].key = keys[i]
              ELSE \A g \in 1..Len(G) : i \notin members(g)
        \* the groups have different keys and no group is empty
        /\ \A g, h \in 1..Len(G) : g # h => G[g].key # G[h].key
        /\ \A g \in 1..Len(G) : G[g].entries # <<>>
        \* an entry is recorded once, at its index in the full list, with the
        \* track's own id, and the entries of a group ascend by position
        /\ \A g \in 1..Len(G) :
              LET es == G[g].entries
              IN  /\ members(g) \subseteq 1..Len(tr)
                  /\ \A k \in 1..Len(es) : es[k].track_id = tr[es[k].playlist_index + 1].id
                  /\ \A j, k \in 1..Len(es) :
                        j < k => es[j].playlist_index < es[k].playlist_index

\* C21: in the groups of every fetched track list, each item with a track is in
\* exactly one group, the one of its (normalized title, normalized first artist);
\* items without a track are in none but keep their position, so an entry's
\* position is its index in the full list; two entries share a group iff
\* their keys are equal; the entries of a group ascend by position; and the
\* groups presented for review are those with more than one entry.
C21_GroupingInvariant ==
    /\ GroupsWellFormed(tracks, build_groups(tracks))
    /\ pc \in {"manual_prompt", "manual_confirm", "manual_commit"} =>
          /\ \A g \in 1..Len(dup_groups) : Len(dup_groups[g].entries) >= 2
          /\ Range(dup_groups) = {G \in Range(build_groups(tracks)) : Len(G.entries) >= 2}
          /\ Len(dup_groups) = Cardinality(Range(dup_groups))

\* a list with an item without track between the two tracks of a group: the
\* second track keeps position 4
C21_Witness ==
    /\ pc = "manual_prompt"
    /\ tracks = LocalPlaylist
    /\ Len(dup_groups) = 2
    /\ dup_groups[2].entries[1].playlist_index = 2
    /\ dup_groups[2].entries[2].playlist_index = 4

\* a step that makes no removal call and leaves the playlist alone
NoRemoval == calls' = <<>> /\ remote' = remote

\* C22: a removal call is only made in a phase in which the user gave the
\* affirmative answer for that phase's batch ('y' or 'e' at the automatic-cleanup
\* prompt, 'y' at the manual confirmation, 'y' at the year filter's final
\* confirmation); any other answer at these prompts, Enter included, ends the
\* phase's removal without a call.
C22_NoRemovalWithoutConsent ==
    [][/\ calls' # <<>> => consent'
       /\ remote' # remote => (consent /\ Len(calls') = Len(calls) + 1)
       /\ \A r \in AutoInputs :
             AutoPromptWith(r) =>
                /\ consent' <=> r \in {"y", "e"}
                /\ r \notin {"y", "e"} => (NoRemoval /\ pc' \in {"auto_prompt", "handle_dup"})
       /\ \A a \in ConfirmInputs :
             /\ ManualConfirmWith(a) =>
                   /\ consent' <=> a = "y"
                   /\ a # "y" => (NoRemoval /\ pc' = "year_fetch")
             /\ YearConfirmWith(a) =>
                   /\ consent' <=> a = "y"
                   /\ a # "y" => (NoRemoval /\ pc' = "save")
       /\ pc' \in {"auto_commit", "manual_commit", "year_commit"} => consent']_vars

\* the year filter removed something after the final yes
C22_Witness ==
    /\ pc = "save"
    /\ consent
    /\ calls # <<>>
    /\ calls[1].ok
    /\ Len(remote) < Len(tracks)

\* the URIs of the tracks of the fetched list whose id is in the KeepCache
KeptUris == {tracks[k].uri : k \in {j \in 1..Len(tracks) : tracks[j].track /\ tracks[j].id \in keep_set}}

\* C23: when the year filter submits its removals, none of the URIs belongs to
\* a track whose id is in the KeepCache.
C23_KeptNotRemovedByYear ==
    pc = "year_commit" => Range(to_remove_uris) \cap KeptUris = {}

====
